---- MODULE Spec2Model ----
(***************************************************************************)
(* A model of pfeyz/debomb: the Debomber of debomb.py (is_bomb, extract,   *)
(* extract_bomb) and the Debomber of debomber.py (rebase_paths,            *)
(* has_exploded, clean), over a small POSIX file system.                   *)
(*                                                                         *)
(* A path string is a sequence of one-character strings, so that the       *)
(* character-level behaviour of os.path.join, os.path.split,               *)
(* os.path.commonprefix and os.path.abspath is what the model computes.    *)
(***************************************************************************)
EXTENDS Integers, Sequences, FiniteSets, TLC

(***************************************************************************)
(* Bounds of the model.                                                    *)
(***************************************************************************)
\* the longest member list an archive of the model holds
MaxNames == 2

(***************************************************************************)
(* Strings and the os.path functions the code calls (posixpath).           *)
(***************************************************************************)
Sep == "/"
Empty == << >>
Dot == << "." >>
DotDot == << ".", "." >>
SlashStr == << "/" >>

\* s[i:], 0-based like Python
Drop(s, i) == IF i >= Len(s) THEN Empty ELSE SubSeq(s, i + 1, Len(s))
\* s[:i]
Take(s, i) == IF i <= 0 THEN Empty ELSE SubSeq(s, 1, IF i > Len(s) THEN Len(s) ELSE i)

StartsWith(s, p) == Len(p) <= Len(s) /\ Take(s, Len(p)) = p
EndsWithSep(s) == Len(s) > 0 /\ s[Len(s)] = Sep

\* s.rfind('/') + 1: the index just after the last separator, 0 if none
RECURSIVE RFindSepFrom(_, _)
RFindSepFrom(s, i) == IF i = 0 \/ s[i] = Sep THEN i ELSE RFindSepFrom(s, i - 1)
RFindSep1(s) == RFindSepFrom(s, Len(s))

AllSeps(s) == \A i \in 1..Len(s) : s[i] = Sep

RECURSIVE RStripSep(_)
RStripSep(s) == IF EndsWithSep(s) THEN RStripSep(Take(s, Len(s) - 1)) ELSE s

\* os.path.isabs
IsAbs(s) == Len(s) > 0 /\ s[1] = Sep

\* os.path.join(a, b) of two components
Join(a, b) ==
  IF IsAbs(b) THEN b
  ELSE IF a = Empty \/ EndsWithSep(a) THEN a \o b
  ELSE a \o SlashStr \o b

\* os.path.split(p) = (head, tail)
SplitHead(p) ==
  LET i == RFindSep1(p)
      head == Take(p, i)
  IN  IF head # Empty /\ ~AllSeps(head) THEN RStripSep(head) ELSE head
SplitTail(p) == Drop(p, RFindSep1(p))

\* os.path.basename, os.path.dirname
Basename(p) == Drop(p, RFindSep1(p))
Dirname(p) == SplitHead(p)

\* os.path.splitext(p)[0]: cut at the last dot of the last component, unless
\* that dot only leads the component
SplitextRoot(p) ==
  LET sepIndex == RFindSep1(p)
      dots == { i \in (sepIndex + 1)..Len(p) : p[i] = "." }
  IN  IF dots = {} THEN p
      ELSE LET dotIndex == CHOOSE i \in dots : \A j \in dots : j <= i
           IN  IF \E k \in (sepIndex + 1)..(dotIndex - 1) : p[k] # "."
                 THEN Take(p, dotIndex - 1)
                 ELSE p

\* p.split('/')
RECURSIVE SplitSepFrom(_, _, _, _)
SplitSepFrom(p, i, comp, comps) ==
  IF i > Len(p) THEN Append(comps, comp)
  ELSE IF p[i] = Sep THEN SplitSepFrom(p, i + 1, Empty, Append(comps, comp))
  ELSE SplitSepFrom(p, i + 1, Append(comp, p[i]), comps)
SplitSep(p) == SplitSepFrom(p, 1, Empty, << >>)

\* '/'.join(comps)
RECURSIVE JoinSep(_)
JoinSep(comps) ==
  IF comps = << >> THEN Empty
  ELSE IF Len(comps) = 1 THEN comps[1]
  ELSE comps[1] \o SlashStr \o JoinSep(Tail(comps))

\* the component loop of posixpath.normpath
RECURSIVE NormComps(_, _, _)
NormComps(comps, newComps, initialSlashes) ==
  IF comps = << >> THEN newComps
  ELSE LET comp == Head(comps)
           rest == Tail(comps)
       IN  IF comp = Empty \/ comp = Dot
             THEN NormComps(rest, newComps, initialSlashes)
           ELSE IF \/ comp # DotDot
                   \/ (initialSlashes = 0 /\ newComps = << >>)
                   \/ (newComps # << >> /\ newComps[Len(newComps)] = DotDot)
             THEN NormComps(rest, Append(newComps, comp), initialSlashes)
           ELSE IF newComps # << >>
             THEN NormComps(rest, Take(newComps, Len(newComps) - 1), initialSlashes)
           ELSE NormComps(rest, newComps, initialSlashes)

\* os.path.normpath
NormPath(p) ==
  IF p = Empty THEN Dot
  ELSE LET initialSlashes ==
             IF ~IsAbs(p) THEN 0
             ELSE IF StartsWith(p, <<Sep, Sep>>) /\ ~StartsWith(p, <<Sep, Sep, Sep>>)
               THEN 2 ELSE 1
           body == JoinSep(NormComps(SplitSep(p), << >>, initialSlashes))
           full == IF initialSlashes = 2 THEN <<Sep, Sep>> \o body
                   ELSE IF initialSlashes = 1 THEN SlashStr \o body
                   ELSE body
       IN  IF full = Empty THEN Dot ELSE full

\* the process's working directory, os.getcwd()
Cwd == << "/", "r" >>

\* os.path.abspath
AbsPath(p) == NormPath(IF IsAbs(p) THEN p ELSE Join(Cwd, p))

\* the longest common leading string of two strings, character by character
RECURSIVE LCPFrom(_, _, _)
LCPFrom(s, t, i) ==
  IF i > Len(s) \/ i > Len(t) \/ s[i] # t[i] THEN Take(s, i - 1)
  ELSE LCPFrom(s, t, i + 1)
LCP(s, t) == LCPFrom(s, t, 1)

\* os.path.commonprefix(m): the character-wise common prefix of all of m
\* (the library takes it of min(m) and max(m), which is the same string)
RECURSIVE CommonPrefix(_)
CommonPrefix(m) ==
  IF m = << >> THEN Empty
  ELSE IF Len(m) = 1 THEN m[1]
  ELSE LCP(m[1], CommonPrefix(Tail(m)))

(***************************************************************************)
(* The file system: a function from the normalised absolute path of every  *)
(* existing entry to its kind.  "/" always exists and is a directory; the  *)
(* parent of every entry is a directory.  There are no symbolic links.     *)
(***************************************************************************)
IsDirNode(fsys, n) == n = SlashStr \/ (n \in DOMAIN fsys /\ fsys[n] = "dir")
NodeExists(fsys, n) == n = SlashStr \/ n \in DOMAIN fsys
Child(n, comp) == IF n = SlashStr THEN n \o comp ELSE n \o SlashStr \o comp

\* the kernel's walk of a path, component by component: every component is
\* looked up in a directory that exists
RECURSIVE Walk(_, _, _)
Walk(fsys, comps, cur) ==
  IF comps = << >> THEN [ok |-> TRUE, node |-> cur]
  ELSE IF ~IsDirNode(fsys, cur) THEN [ok |-> FALSE, node |-> cur]
  ELSE LET comp == Head(comps)
       IN  IF comp = Empty \/ comp = Dot THEN Walk(fsys, Tail(comps), cur)
           ELSE IF comp = DotDot THEN Walk(fsys, Tail(comps), Dirname(cur))
           ELSE Walk(fsys, Tail(comps), Child(cur, comp))

\* resolve a path string (relative ones against the working directory)
Lookup(fsys, p) ==
  LET q == IF IsAbs(p) THEN p ELSE Join(Cwd, p)
  IN  IF p = Empty THEN [ok |-> FALSE, node |-> Cwd]
      ELSE Walk(fsys, SplitSep(q), SlashStr)

\* os.path.exists, os.path.isdir
Exists(fsys, p) == LET w == Lookup(fsys, p) IN w.ok /\ NodeExists(fsys, w.node)
IsDir(fsys, p) == LET w == Lookup(fsys, p) IN w.ok /\ IsDirNode(fsys, w.node)

\* an entry and everything below it
Under(n, k) == k = n \/ StartsWith(k, IF n = SlashStr THEN n ELSE n \o SlashStr)
Subtree(fsys, n) == { k \in DOMAIN fsys : Under(n, k) }

\* the proper ancestors of a node, "/" left out
RECURSIVE Ancestors(_)
Ancestors(n) ==
  IF n = SlashStr \/ Dirname(n) = SlashStr \/ Dirname(n) = n THEN {}
  ELSE {Dirname(n)} \cup Ancestors(Dirname(n))

\* the file system with entry src (and all below it) now at dst, replacing
\* whatever dst was
Rekey(fsys, src, dst) ==
  LET moved == Subtree(fsys, src)
      gone == moved \cup Subtree(fsys, dst)
      landed == { dst \o Drop(k, Len(src)) : k \in moved }
      origin(k) == src \o Drop(k, Len(dst))
  IN  [k \in (DOMAIN fsys \ gone) \cup landed |->
         IF k \in landed THEN fsys[origin(k)] ELSE fsys[k]]

\* the file system with a node added, its missing ancestors made directories
AddNode(fsys, n, kind) ==
  LET new == ({n} \cup Ancestors(n)) \ DOMAIN fsys
  IN  [k \in DOMAIN fsys \cup new |->
         IF k \in DOMAIN fsys /\ k # n THEN fsys[k]
         ELSE IF k = n THEN kind ELSE "dir"]

\* os.makedirs(n) can succeed: n is new and nothing above it is a file
MakedirsOk(fsys, n) ==
  /\ ~NodeExists(fsys, n)
  /\ \A a \in Ancestors(n) : a \in DOMAIN fsys => fsys[a] = "dir"

\* os.rename succeeds; s and d are the walks of its two arguments
RenameOk(fsys, s, d) ==
  /\ s.ok /\ NodeExists(fsys, s.node) /\ s.node # SlashStr
  /\ d.ok /\ d.node # SlashStr
  /\ \/ s.node = d.node
     \/ /\ IsDirNode(fsys, s.node)
        /\ ~Under(s.node, d.node)
        /\ \/ ~NodeExists(fsys, d.node)
           \/ IsDirNode(fsys, d.node) /\ Subtree(fsys, d.node) = {d.node}
     \/ /\ ~IsDirNode(fsys, s.node)
        /\ ~IsDirNode(fsys, d.node)

\* shutil._destinsrc
DestInSrc(src, dst) ==
  LET a == AbsPath(src)
      b == AbsPath(dst)
      withSep(x) == IF EndsWithSep(x) THEN x ELSE x \o SlashStr
  IN  StartsWith(withSep(b), withSep(a))

\* the second half of shutil.move: os.rename(src, realDst) and, when that
\* fails, copytree + rmtree of a directory or copy2 + unlink of a file;
\* s and d are the walks of src and realDst
MoveTo(fsys, src, dst, realDst, s, d) ==
  IF RenameOk(fsys, s, d)
    THEN [fs |-> IF s.node = d.node THEN fsys ELSE Rekey(fsys, s.node, d.node),
          err |-> "ok"]
  ELSE IF s.ok /\ IsDirNode(fsys, s.node)
    THEN IF DestInSrc(src, dst) THEN [fs |-> fsys, err |-> "shutil.Error"]
         ELSE IF MakedirsOk(fsys, AbsPath(realDst))
           THEN [fs |-> Rekey(AddNode(fsys, AbsPath(realDst), "dir"),
                              s.node, AbsPath(realDst)),
                 err |-> "ok"]
         ELSE [fs |-> fsys, err |-> "OSError"]
  ELSE IF ~(s.ok /\ NodeExists(fsys, s.node))
    THEN [fs |-> fsys, err |-> "IOError:source"]
  ELSE IF ~d.ok \/ IsDirNode(fsys, d.node)
    THEN [fs |-> fsys, err |-> "IOError:destination"]
  ELSE [fs |-> Rekey(fsys, s.node, d.node), err |-> "ok"]

\* shutil.move(src, dst): the new file system and how the call ended
Move(fsys, src, dst) ==
  LET s == Lookup(fsys, src)
      d == Lookup(fsys, dst)
  IN  IF d.ok /\ IsDirNode(fsys, d.node)
        THEN IF s.ok /\ NodeExists(fsys, s.node) /\ s.node = d.node
               THEN [fs |-> fsys, err |-> "ok"]
             ELSE LET realDst == Join(dst, Basename(RStripSep(src)))
                      r == Lookup(fsys, realDst)
                  IN  IF r.ok /\ NodeExists(fsys, r.node)
                        THEN [fs |-> fsys, err |-> "shutil.Error"]
                        ELSE MoveTo(fsys, src, dst, realDst, s, r)
        ELSE MoveTo(fsys, src, dst, dst, s, d)

(***************************************************************************)
(* tarfile / zipfile extractall(path): every member is written under path, *)
(* missing parent directories made on the way; a member that has other     *)
(* members below it is a directory entry.  The first member that cannot be *)
(* written ends the call with an error.                                    *)
(***************************************************************************)
IsDirEntry(members, name) ==
  \E j \in 1..Len(members) :
    members[j] # name /\ StartsWith(members[j], RStripSep(name) \o SlashStr)

RECURSIVE ExtractAllFrom(_, _, _, _)
ExtractAllFrom(fsys, path, members, i) ==
  IF i > Len(members) THEN [fs |-> fsys, err |-> "ok"]
  ELSE LET target == AbsPath(Join(path, members[i]))
           asDir == IsDirEntry(members, members[i])
           blocked == \/ target = SlashStr
                      \/ \E a \in Ancestors(target) :
                            a \in DOMAIN fsys /\ fsys[a] # "dir"
                      \/ target \in DOMAIN fsys /\ fsys[target] = "dir" /\ ~asDir
                      \/ target \in DOMAIN fsys /\ fsys[target] # "dir" /\ asDir
       IN  IF blocked THEN [fs |-> fsys, err |-> "IOError"]
           ELSE ExtractAllFrom(AddNode(fsys, target, IF asDir THEN "dir" ELSE "file"),
                               path, members, i + 1)

ExtractAll(fsys, path, members) ==
  IF ~IsDir(fsys, path) THEN [fs |-> fsys, err |-> "IOError"]
  ELSE ExtractAllFrom(fsys, path, members, 1)

(***************************************************************************)
(* The inputs of the model.                                                *)
(***************************************************************************)
\* the archive file, given relative to the working directory or absolute
ArchivePath == << "/", "r", "/", "f", ".", "t" >>
Fnames == { << "f", ".", "t" >>, ArchivePath }

\* the rootdir argument of debomber.py; NoArg is Python's None
NoArg == << "<", "N", "o", "n", "e", ">" >>
RootDirs == { NoArg, << "/", "r", "/" >> }

\* member names an archive handed to debomber.py may list
MemberNames ==
  { << "a" >>, << "c" >>, << "c", "/", "d" >>, << "f" >>,
    << "/", "c", "/", "a" >>, << ".", ".", "/", "a" >> }

\* member names an archive handed to debomb.py may list
BombNames ==
  { << "a", "b" >>, << "a", "c" >>, << "c", "/", "d" >>,
    << ".", ".", "/", "c", "d" >> }

\* raw member names given to rebase_paths when it is run step by step, and
\* the rootdir arguments it is run under
RawNames ==
  { << "a" >>, << "c", "/", "d" >>, << "/", "c", "/", "a" >>, << "/", "c", "/" >>,
    << ".", ".", "/", "a" >>, << "/", ".", "." >>, Empty }
RebaseRoots == { NoArg, << "/", "r", "/" >>, << "/", "r", "/", "c" >>, SlashStr }

\* destinations given to extract and extract_bomb of debomb.py
Destinations == { Dot, << "/", "r" >>, << "/", "r", "/", "c" >> }

Lists(S) == UNION { [1..n -> S] : n \in 0..MaxNames }

\* the file systems a run may start in: the working directory with the
\* archive in it, and any of a, c/d and f (a file or a directory) beside it
BaseFs == AddNode(<< >>, ArchivePath, "file")
WithEntry(fsys, on, n, kind) == IF on THEN AddNode(fsys, Join(Cwd, n), kind) ELSE fsys
InitialFileSystems ==
  { WithEntry(WithEntry(WithEntry(BaseFs,
        hasA, << "a" >>, "file"),
        hasD, << "c", "/", "d" >>, "file"),
        fKind # "absent", << "f" >>, fKind) :
      hasA \in BOOLEAN, hasD \in BOOLEAN, fKind \in {"absent", "file", "dir"} }

(***************************************************************************)
(* The state.                                                              *)
(***************************************************************************)
VARIABLES
  prog,         \* which module's Debomber this is: "debomb" or "debomber"
  life,         \* "new", "ready" (constructed), "failed" (__init__ raised), "deleted"
  cfile,        \* self.cfile: "unset", "open" or "closed"
  closeCalls,   \* how often close() was called on the handle
  root,         \* self.root
  archiveName,  \* self.name (debomb.py), self.archive_fn (debomber.py)
  names,        \* self.names
  preserve,     \* self.preserve_paths
  partial,      \* self.partial
  fs,           \* the file system
  lastOp,       \* the last method called
  err,          \* how that call ended: "none" or the exception raised
  result,       \* what is_bomb / has_exploded last returned
  precond,      \* what has_exploded had returned right before the last clean
  recheck,      \* the last two calls were clean, then has_exploded
  moveLog,      \* the moves of the last clean, in order
  dest,         \* what _make_extraction_dir last returned
  pc,           \* "idle", or "prompt" while extract waits in raw_input
  xpath,        \* the path argument of the running / last extract
  xwarn,        \* its warn argument
  badfiles,     \* the names the last extract found unsafe
  choice,       \* the user's last answer to the prompt
  extracted,    \* the last extract called cfile.extractall
  fsAtCall,     \* the file system when the last extract was called
  used,         \* extract or extract_bomb has been called on this object
  genPc,        \* where rebase_paths stands: "idle", "for", "while", "after",
                \* "done" (exhausted) or "raised"
  genIndex,     \* how many of self.names its for loop has taken
  genName,      \* its local name
  genPrevName,  \* its local prev_name
  genYielded    \* the names it has yielded, in order

vars == << prog, life, cfile, closeCalls, root, archiveName, names,
           partial, preserve, fs, lastOp, err, result, precond, recheck, moveLog,
           dest, pc, xpath, xwarn, badfiles, choice, extracted, fsAtCall, used,
           genPc, genIndex, genName, genPrevName, genYielded >>

objVars == << prog, root, archiveName, names, partial, preserve >>
handleVars == << cfile, closeCalls >>
cleanVars == << precond, recheck, moveLog >>
extractVars == << pc, xpath, xwarn, badfiles, choice, extracted, fsAtCall >>
rebaseVars == << genPc, genIndex, genName, genPrevName, genYielded >>

NoResult == [kind |-> "none", missing |-> << >>]
RTrue == [kind |-> "True", missing |-> << >>]
RFalse == [kind |-> "False", missing |-> << >>]
RList(l) == [kind |-> "list", missing |-> l]

Init ==
  /\ prog \in {"debomb", "debomber"}
  /\ fs \in InitialFileSystems
  /\ life = "new"
  /\ cfile = "unset"
  /\ closeCalls = 0
  /\ root = Empty
  /\ archiveName = Empty
  /\ names = << >>
  /\ partial = FALSE
  /\ preserve = FALSE
  /\ lastOp = "none"
  /\ err = "none"
  /\ result = NoResult
  /\ precond = NoResult
  /\ recheck = FALSE
  /\ moveLog = << >>
  /\ dest = Empty
  /\ pc = "idle"
  /\ xpath = Empty
  /\ xwarn = FALSE
  /\ badfiles = << >>
  /\ choice = ""
  /\ extracted = FALSE
  /\ fsAtCall = << >>
  /\ used = FALSE
  /\ genPc = "idle"
  /\ genIndex = 0
  /\ genName = Empty
  /\ genPrevName = Empty
  /\ genYielded = << >>

(***************************************************************************)
(* debomber.py: construction and teardown.                                 *)
(***************************************************************************)
\* Debomber._outside_root
OutsideRoot(rootDir, fn) == Join(rootDir, fn) = fn

\* the while loop of rebase_paths for one name
RECURSIVE RebaseLoop(_, _, _)
RebaseLoop(rootDir, name, prevName) ==
  IF OutsideRoot(rootDir, name)
    THEN LET stripped == SplitTail(name)
         IN  IF stripped = prevName THEN stripped
             ELSE RebaseLoop(rootDir, stripped, stripped)
    ELSE name

\* one round of the for loop of rebase_paths: the name yielded, or the raise
RebaseName(rootDir, name) ==
  LET final == RebaseLoop(rootDir, name, name)
  IN  [name |-> final, raised |-> OutsideRoot(rootDir, final)]

\* rebase_paths as the list comprehension of __init__ consumes it
RebasePaths(rootDir, raw) ==
  LET each == [i \in 1..Len(raw) |-> RebaseName(rootDir, raw[i])]
  IN  [names |-> [i \in 1..Len(raw) |-> each[i].name],
       raised |-> \E i \in 1..Len(raw) : each[i].raised]

\* the format dispatch at the head of both __init__s: whether self.cfile is
\* assigned, and the exception raised when it is not
OpenHandle(adapter, format) ==
  IF adapter = "ok" THEN [opened |-> TRUE, err |-> "none"]
  ELSE IF adapter = "raises" THEN [opened |-> FALSE, err |-> "AdapterError"]
  ELSE IF format \in {"tar", "zip"} THEN [opened |-> TRUE, err |-> "none"]
  ELSE [opened |-> FALSE, err |-> "ValueError"]

\* Debomber.__init__ of debomber.py
Construct(fname, rootdir, isPartial, preservePaths, adapter, format, listing, listingFails) ==
  LET h == OpenHandle(adapter, format)
      rootDir == AbsPath(IF rootdir = NoArg THEN Cwd ELSE rootdir)
      rebased == RebasePaths(rootDir, listing)
  IN
  /\ prog = "debomber"
  /\ life = "new"
  /\ lastOp' = "__init__"
  /\ UNCHANGED << prog, closeCalls, fs, result, dest, used >>
  /\ UNCHANGED rebaseVars
  /\ UNCHANGED cleanVars
  /\ UNCHANGED extractVars
  /\ IF ~h.opened
       THEN /\ life' = "failed"
            /\ err' = h.err
            /\ UNCHANGED << cfile, root, archiveName, names, partial, preserve >>
     ELSE IF listingFails
       THEN /\ life' = "failed"
            /\ err' = "IOError"
            /\ cfile' = "open"
            /\ root' = rootDir
            /\ UNCHANGED << archiveName, names, partial, preserve >>
     ELSE /\ cfile' = "open"
          /\ root' = rootDir
          /\ archiveName' = Basename(fname)
          /\ preserve' = preservePaths
          /\ partial' = isPartial
          /\ IF ~preservePaths /\ rebased.raised
               THEN /\ life' = "failed"
                    \* Exception(message=...) takes no keyword arguments
                    /\ err' = "TypeError"
                    /\ names' = listing
               ELSE /\ life' = "ready"
                    /\ err' = "none"
                    /\ names' = IF preservePaths THEN listing ELSE rebased.names

\* __del__ as it would be if close() went ahead with no handle assigned
DelUnguarded ==
  /\ life \in {"ready", "failed"}
  /\ pc = "idle"
  /\ life' = "deleted"
  /\ lastOp' = "__del__"
  /\ err' = "none"
  /\ cfile' = IF cfile = "unset" THEN "unset" ELSE "closed"
  /\ closeCalls' = closeCalls + 1
  /\ UNCHANGED << fs, result, dest, used >>
  /\ UNCHANGED objVars
  /\ UNCHANGED rebaseVars
  /\ UNCHANGED cleanVars
  /\ UNCHANGED extractVars

\* Debomber.__del__ (both modules): self.cfile.close(); with self.cfile never
\* assigned the attribute lookup raises before any close
Del ==
  /\ life \in {"ready", "failed"}
  /\ pc = "idle"
  /\ life' = "deleted"
  /\ lastOp' = "__del__"
  /\ IF cfile = "unset"
       THEN /\ err' = "AttributeError"
            /\ UNCHANGED handleVars
       ELSE /\ err' = "none"
            /\ cfile' = "closed"
            /\ closeCalls' = closeCalls + 1
  /\ UNCHANGED << fs, result, dest, used >>
  /\ UNCHANGED objVars
  /\ UNCHANGED rebaseVars
  /\ UNCHANGED cleanVars
  /\ UNCHANGED extractVars

(***************************************************************************)
(* debomber.py: has_exploded and clean.                                    *)
(***************************************************************************)
\* list.remove(x): drop the first occurrence
RECURSIVE RemoveFirst(_, _)
RemoveFirst(l, x) ==
  IF l = << >> THEN << >>
  ELSE IF Head(l) = x THEN Tail(l)
  ELSE << Head(l) >> \o RemoveFirst(Tail(l), x)

\* the for loop of has_exploded over the copy files[:], from position i on
RECURSIVE MissingFrom(_, _, _, _, _)
MissingFrom(fsys, rootDir, copy, files, i) ==
  IF i > Len(copy) THEN files
  ELSE MissingFrom(fsys, rootDir, copy,
                   IF Exists(fsys, Join(rootDir, copy[i]))
                     THEN RemoveFirst(files, copy[i]) ELSE files,
                   i + 1)

\* what has_exploded returns
HasExplodedResult(fsys, rootDir, members, isPartial) ==
  LET files == MissingFrom(fsys, rootDir, members, members, 1)
      filesFound == Len(members) - Len(files)
  IN  IF isPartial /\ filesFound > 0 THEN RTrue
      ELSE IF filesFound = Len(members) THEN RTrue
      ELSE IF filesFound = 0 THEN RFalse
      ELSE RList(files)

\* Debomber.has_exploded of debomber.py
HasExploded ==
  /\ prog = "debomber"
  /\ life = "ready"
  /\ result' = HasExplodedResult(fs, root, names, partial)
  /\ recheck' = (lastOp = "clean")
  /\ lastOp' = "has_exploded"
  /\ err' = "none"
  /\ UNCHANGED << life, fs, dest, precond, moveLog, used >>
  /\ UNCHANGED objVars
  /\ UNCHANGED rebaseVars
  /\ UNCHANGED handleVars
  /\ UNCHANGED extractVars

\* _make_extraction_dir (both modules; debomber.py has no path argument):
\* the directory's path, the file system after the mkdir, and the mkdir's error
MakeExtractionDir(fsys, rootDir, archiveFn, path) ==
  LET label == SplitextRoot(archiveFn)
      d == IF path # NoArg /\ path # Empty THEN Join(path, label)
           ELSE Join(rootDir, label)
  IN  IF Exists(fsys, d) THEN [dest |-> d, fs |-> fsys, err |-> "none"]
      ELSE IF IsDir(fsys, Dirname(AbsPath(d)))
        THEN [dest |-> d, fs |-> AddNode(fsys, AbsPath(d), "dir"), err |-> "none"]
      ELSE [dest |-> d, fs |-> fsys, err |-> "OSError"]

\* the except clause of clean: is the exception of a failed move swallowed
Swallowed(moveErr, isPartial) ==
  moveErr \in {"IOError:source", "IOError:destination"} /\ isPartial

\* the for loop of clean from position i on: every move is logged; a move
\* whose exception is not swallowed ends the loop
RECURSIVE CleanLoop(_, _, _, _, _, _, _)
CleanLoop(fsys, rootDir, destDir, members, isPartial, i, log) ==
  IF i > Len(members) THEN [fs |-> fsys, log |-> log, err |-> "none"]
  ELSE LET m == Move(fsys, Join(rootDir, members[i]), Join(destDir, members[i]))
           entry(how) == [name |-> members[i], move |-> m.err, how |-> how]
       IN  IF m.err = "ok"
             THEN CleanLoop(m.fs, rootDir, destDir, members, isPartial, i + 1,
                            Append(log, entry("moved")))
           ELSE IF Swallowed(m.err, isPartial)
             THEN CleanLoop(m.fs, rootDir, destDir, members, isPartial, i + 1,
                            Append(log, entry("swallowed")))
           ELSE [fs |-> m.fs, log |-> Append(log, entry("raised")),
                 err |-> IF m.err \in {"IOError:source", "IOError:destination"}
                           THEN "IOError" ELSE m.err]

\* Debomber.clean of debomber.py
Clean ==
  LET made == MakeExtractionDir(fs, root, archiveName, NoArg)
      done == CleanLoop(made.fs, root, made.dest, names, partial, 1, << >>)
  IN
  /\ prog = "debomber"
  /\ life = "ready"
  /\ precond' = IF lastOp = "has_exploded" THEN result ELSE NoResult
  /\ recheck' = FALSE
  /\ lastOp' = "clean"
  /\ IF made.err # "none"
       THEN /\ err' = made.err
            /\ fs' = made.fs
            /\ moveLog' = << >>
            /\ UNCHANGED dest
       ELSE /\ err' = done.err
            /\ fs' = done.fs
            /\ moveLog' = done.log
            /\ dest' = made.dest
  /\ UNCHANGED << life, result, used >>
  /\ UNCHANGED objVars
  /\ UNCHANGED rebaseVars
  /\ UNCHANGED handleVars
  /\ UNCHANGED extractVars

(***************************************************************************)
(* debomb.py: construction, is_bomb, extract and extract_bomb.             *)
(***************************************************************************)
\* Debomber.__init__ of debomb.py
ConstructBomb(fname, adapter, format, listing, listingFails) ==
  LET h == OpenHandle(adapter, format)
  IN
  /\ prog = "debomb"
  /\ life = "new"
  /\ lastOp' = "__init__"
  /\ UNCHANGED << prog, partial, preserve, closeCalls, fs, result, dest, used >>
  /\ UNCHANGED rebaseVars
  /\ UNCHANGED cleanVars
  /\ UNCHANGED extractVars
  /\ IF ~h.opened
       THEN /\ life' = "failed"
            /\ err' = h.err
            /\ UNCHANGED << cfile, root, archiveName, names >>
     ELSE /\ cfile' = "open"
          /\ root' = AbsPath(Dirname(fname))
          /\ archiveName' = Basename(fname)
          /\ IF listingFails
               THEN /\ life' = "failed"
                    /\ err' = "IOError"
                    /\ UNCHANGED names
               ELSE /\ life' = "ready"
                    /\ err' = "none"
                    /\ names' = listing

\* what is_bomb returns
IsBombResult(members) == Len(members) > 1 /\ CommonPrefix(members) = Empty

\* Debomber.is_bomb
IsBomb ==
  /\ prog = "debomb"
  /\ life = "ready"
  /\ pc = "idle"
  /\ result' = IF IsBombResult(names) THEN RTrue ELSE RFalse
  /\ lastOp' = "is_bomb"
  /\ err' = "none"
  /\ UNCHANGED << life, fs, dest, used >>
  /\ UNCHANGED objVars
  /\ UNCHANGED rebaseVars
  /\ UNCHANGED handleVars
  /\ UNCHANGED cleanVars
  /\ UNCHANGED extractVars

\* the test of extract on one member: does it count as landing outside path
Scary(path, name) == CommonPrefix(<< path, AbsPath(Join(path, name)) >>) # path

\* the badfiles list extract builds
BadFiles(path, members) == SelectSeq(members, LAMBDA name : Scary(path, name))

\* self.cfile.extractall(path), the last statement of extract
RunExtractAll(path) ==
  LET x == ExtractAll(fs, path, names)
  IN  /\ fs' = x.fs
      /\ err' = IF x.err = "ok" THEN "none" ELSE x.err
      /\ extracted' = TRUE
      /\ pc' = "idle"

\* the body of extract(path, warn) up to the prompt or to its end, run on the
\* file system fsys its caller left
ExtractBody(fsys, path, warn) ==
  LET bad == IF warn THEN BadFiles(path, names) ELSE << >>
  IN  /\ xpath' = path
      /\ xwarn' = warn
      /\ badfiles' = bad
      /\ choice' = ""
      /\ IF bad # << >>
           THEN /\ pc' = "prompt"
                /\ fs' = fsys
                /\ err' = "none"
                /\ extracted' = FALSE
           ELSE LET x == ExtractAll(fsys, path, names)
                IN  /\ fs' = x.fs
                    /\ err' = IF x.err = "ok" THEN "none" ELSE x.err
                    /\ extracted' = TRUE
                    /\ pc' = "idle"

\* Debomber.extract(path, warn), up to its first raw_input.  An object
\* extracts once, as in the script at the foot of debomb.py.
Extract(path, warn) ==
  /\ prog = "debomb"
  /\ life = "ready"
  /\ pc = "idle"
  /\ ~used
  /\ used' = TRUE
  /\ lastOp' = "extract"
  /\ fsAtCall' = fs
  /\ ExtractBody(fs, path, warn)
  /\ UNCHANGED << life, result, dest >>
  /\ UNCHANGED objVars
  /\ UNCHANGED rebaseVars
  /\ UNCHANGED handleVars
  /\ UNCHANGED cleanVars

\* Debomber.extract_bomb(path), up to the first raw_input of its extract
ExtractBomb(path) ==
  LET made == MakeExtractionDir(fs, root, archiveName, path)
  IN
  /\ prog = "debomb"
  /\ life = "ready"
  /\ pc = "idle"
  /\ ~used
  /\ used' = TRUE
  /\ lastOp' = "extract_bomb"
  /\ fsAtCall' = fs
  /\ IF made.err # "none"
       THEN /\ err' = made.err
            /\ fs' = made.fs
            /\ UNCHANGED << dest, pc, xpath, xwarn, badfiles, choice, extracted >>
       ELSE /\ dest' = made.dest
            /\ ExtractBody(made.fs, made.dest, TRUE)
  /\ UNCHANGED << life, result >>
  /\ UNCHANGED objVars
  /\ UNCHANGED rebaseVars
  /\ UNCHANGED handleVars
  /\ UNCHANGED cleanVars

\* the prompt as it would be with the return after "Extraction aborted"
\* left out: n falls through to extractall
AnswerFallsThrough(typed) ==
  /\ prog = "debomb"
  /\ pc = "prompt"
  /\ choice' = typed
  /\ IF typed \in {"y", "n"}
       THEN RunExtractAll(xpath)
       ELSE UNCHANGED << pc, fs, err, extracted >>
  /\ UNCHANGED << life, lastOp, result, dest, used, xpath, xwarn, badfiles, fsAtCall >>
  /\ UNCHANGED objVars
  /\ UNCHANGED rebaseVars
  /\ UNCHANGED handleVars
  /\ UNCHANGED cleanVars

\* one answer typed at "Extract this archive? (y/n) ": the while loop of
\* extract goes round on anything but y and n
Answer(typed) ==
  /\ prog = "debomb"
  /\ pc = "prompt"
  /\ choice' = typed
  /\ IF typed = "y"
       THEN /\ RunExtractAll(xpath)
     ELSE IF typed = "n"
       THEN /\ pc' = "idle"
            /\ UNCHANGED << fs, err, extracted >>
     ELSE UNCHANGED << pc, fs, err, extracted >>
  /\ UNCHANGED << life, lastOp, result, dest, used, xpath, xwarn, badfiles, fsAtCall >>
  /\ UNCHANGED objVars
  /\ UNCHANGED rebaseVars
  /\ UNCHANGED handleVars
  /\ UNCHANGED cleanVars

(***************************************************************************)
(* debomber.py: __init__ with rebase_paths run statement by statement.     *)
(***************************************************************************)
\* __init__ up to the list comprehension, for a handle that opened, a
\* listing that was read and preserve_paths unset
ConstructStart(fname, rootdir, isPartial, listing) ==
  /\ prog = "debomber"
  /\ life = "new"
  /\ life' = "constructing"
  /\ lastOp' = "__init__"
  /\ err' = "none"
  /\ cfile' = "open"
  /\ root' = AbsPath(IF rootdir = NoArg THEN Cwd ELSE rootdir)
  /\ names' = listing
  /\ archiveName' = Basename(fname)
  /\ preserve' = FALSE
  /\ partial' = isPartial
  /\ genPc' = "for"
  /\ UNCHANGED << genIndex, genName, genPrevName, genYielded >>
  /\ UNCHANGED << prog, closeCalls, fs, result, dest, used >>
  /\ UNCHANGED cleanVars
  /\ UNCHANGED extractVars

\* the for statement of rebase_paths: the next of self.names, or the end of
\* the generator, on which __init__ assigns the list built to self.names
RebaseFor ==
  /\ genPc = "for"
  /\ IF genIndex < Len(names)
       THEN /\ genIndex' = genIndex + 1
            /\ genName' = names[genIndex + 1]
            /\ genPrevName' = names[genIndex + 1]
            /\ genPc' = "while"
            /\ UNCHANGED << names, life, genYielded >>
       ELSE /\ names' = genYielded
            /\ life' = "ready"
            /\ genPc' = "done"
            /\ UNCHANGED << genIndex, genName, genPrevName, genYielded >>
  /\ UNCHANGED << prog, root, archiveName, partial, preserve >>
  /\ UNCHANGED << fs, lastOp, err, result, dest, used >>
  /\ UNCHANGED handleVars
  /\ UNCHANGED cleanVars
  /\ UNCHANGED extractVars

\* one pass of the body of while True
RebaseWhile ==
  /\ genPc = "while"
  /\ IF OutsideRoot(root, genName)
       THEN LET stripped == SplitTail(genName)
            IN  /\ genName' = stripped
                /\ IF stripped = genPrevName
                     THEN /\ genPc' = "after"
                          /\ UNCHANGED genPrevName
                     ELSE /\ genPrevName' = stripped
                          /\ UNCHANGED genPc
       ELSE /\ genPc' = "after"
            /\ UNCHANGED << genName, genPrevName >>
  /\ UNCHANGED << genIndex, genYielded >>
  /\ UNCHANGED << life, fs, lastOp, err, result, dest, used >>
  /\ UNCHANGED objVars
  /\ UNCHANGED handleVars
  /\ UNCHANGED cleanVars
  /\ UNCHANGED extractVars

\* the statements after the while loop: the raise, which leaves __init__,
\* or the yield
RebaseYield ==
  /\ genPc = "after"
  /\ IF OutsideRoot(root, genName)
       THEN /\ genPc' = "raised"
            /\ life' = "failed"
            \* Exception(message=...) takes no keyword arguments
            /\ err' = "TypeError"
            /\ UNCHANGED genYielded
       ELSE /\ genPc' = "for"
            /\ genYielded' = Append(genYielded, genName)
            /\ UNCHANGED << life, err >>
  /\ UNCHANGED << genIndex, genName, genPrevName >>
  /\ UNCHANGED << fs, lastOp, result, dest, used >>
  /\ UNCHANGED objVars
  /\ UNCHANGED handleVars
  /\ UNCHANGED cleanVars
  /\ UNCHANGED extractVars

(***************************************************************************)
(* The two programs.                                                       *)
(***************************************************************************)
\* the ways the head of __init__ can go
Openings ==
  { [adapter |-> "ok", format |-> "other"], [adapter |-> "raises", format |-> "other"],
    [adapter |-> "none", format |-> "tar"], [adapter |-> "none", format |-> "zip"],
    [adapter |-> "none", format |-> "other"] }

\* the listings worth giving a construction: one that fails before it reads
\* the listing is given the empty one only
ListingsFor(opening, listingFails, S) ==
  IF OpenHandle(opening.adapter, opening.format).opened /\ ~listingFails
    THEN Lists(S) ELSE { << >> }

NextDebomber ==
  \/ /\ life = "new"
     /\ \E fname \in Fnames, rootdir \in RootDirs, opening \in Openings,
           listingFails \in BOOLEAN :
          \E listing \in ListingsFor(opening, listingFails, MemberNames),
             isPartial \in BOOLEAN, preservePaths \in BOOLEAN :
            Construct(fname, rootdir, isPartial, preservePaths, opening.adapter,
                      opening.format, listing, listingFails)
  \/ HasExploded
  \/ Clean
  \/ Del

NextDebomb ==
  \/ /\ life = "new"
     /\ \E fname \in Fnames, opening \in Openings, listingFails \in BOOLEAN :
          \E listing \in ListingsFor(opening, listingFails, BombNames) :
            ConstructBomb(fname, opening.adapter, opening.format, listing, listingFails)
  \/ IsBomb
  \/ \E path \in Destinations, warn \in BOOLEAN : Extract(path, warn)
  \/ \E path \in Destinations \cup {NoArg} : ExtractBomb(path)
  \/ \E typed \in {"y", "n", "x"} : Answer(typed)
  \/ Del

\* debomber.py
InitDebomber == Init /\ prog = "debomber"
SpecDebomber == InitDebomber /\ [][NextDebomber]_vars

\* debomb.py, run where no a lies about
InitDebomb == Init /\ prog = "debomb" /\ ~Exists(fs, Join(Cwd, << "a" >>))
SpecDebomb == InitDebomb /\ [][NextDebomb]_vars

\* debomber.py's __init__ with rebase_paths run statement by statement; the
\* interpreter goes on executing the thread that runs it
NextRebase ==
  \/ /\ life = "new"
     /\ \E fname \in Fnames, rootdir \in RebaseRoots, isPartial \in BOOLEAN,
           listing \in Lists(RawNames) :
          ConstructStart(fname, rootdir, isPartial, listing)
  \/ RebaseFor
  \/ RebaseWhile
  \/ RebaseYield
InitRebase == Init /\ prog = "debomber" /\ fs = BaseFs
SpecRebase == InitRebase /\ [][NextRebase]_vars /\ WF_vars(NextRebase)

(***************************************************************************)
(* What the properties speak of.                                           *)
(***************************************************************************)
\* the leading path segments two member paths share
RECURSIVE SharedSegments(_, _)
SharedSegments(a, b) ==
  IF a = << >> \/ b = << >> \/ Head(a) # Head(b) THEN << >>
  ELSE << Head(a) >> \o SharedSegments(Tail(a), Tail(b))

\* the longest common path prefix of a member list, in whole segments
RECURSIVE CommonSegments(_)
CommonSegments(members) ==
  IF members = << >> THEN << >>
  ELSE IF Len(members) = 1 THEN SplitSep(members[1])
  ELSE SharedSegments(SplitSep(members[1]), CommonSegments(Tail(members)))

\* member i of self.names exists under self.root
MemberExists(i) == Exists(fs, Join(root, names[i]))
AllExist == \A i \in 1..Len(names) : MemberExists(i)
NoneExist == \A i \in 1..Len(names) : ~MemberExists(i)
MissingMembers == SelectSeq(names, LAMBDA n : ~Exists(fs, Join(root, n)))

\* a path that, joined to a directory and resolved, lies in that directory
LandsInside(dir, name) == Under(AbsPath(dir), AbsPath(Join(dir, name)))

\* the last clean ended by raising
CleanRaised == moveLog # << >> /\ moveLog[Len(moveLog)].how = "raised"

(***************************************************************************)
(* C1.  is_bomb() is true exactly for a list of at least two member paths  *)
(* whose longest common prefix, taken over whole path segments, is empty.  *)
(* The code takes the prefix over characters: ab and ac share "a".         *)
(***************************************************************************)
C1_BombIffNoSharedSegment ==
  (prog = "debomb" /\ lastOp = "is_bomb") =>
    ((result = RTrue) <=> (Len(names) >= 2 /\ CommonSegments(names) = << >>))

(***************************************************************************)
(* C2.  With partial unset, has_exploded() reports True exactly when every *)
(* member exists under root, False exactly when none does, and otherwise   *)
(* the list of the members that do not exist.  The code reports True for   *)
(* an archive without members, of which none exists.                       *)
(***************************************************************************)
C2_ExplosionStateExact ==
  (prog = "debomber" /\ lastOp = "has_exploded" /\ ~partial) =>
    /\ (result = RTrue) <=> AllExist
    /\ (result = RFalse) <=> NoneExist
    /\ (~AllExist /\ ~NoneExist) => result = RList(MissingMembers)

(***************************************************************************)
(* C3.  Every name rebase_paths yields, joined to root and resolved, lies  *)
(* under root.  The code only strips absolute names: ../a is kept.         *)
(***************************************************************************)
C3_RebasedStayUnderRoot ==
  (prog = "debomber" /\ life = "ready" /\ ~preserve) =>
    \A i \in 1..Len(names) : LandsInside(root, names[i])

(***************************************************************************)
(* C4.  When has_exploded() gave True for an archive with members, and     *)
(* clean() and has_exploded() are then run, the second has_exploded()      *)
(* reports False.  A move of clean() that fails leaves its member in root. *)
(***************************************************************************)
C4_CleanLeavesNothing ==
  (prog = "debomber" /\ names # << >> /\ recheck /\ precond = RTrue) =>
    result = RFalse

(***************************************************************************)
(* C5.  clean() swallows a failed move only when partial is set and the    *)
(* source is absent; every other failed move is raised and is the last     *)
(* move clean() makes.  The code swallows every IOError under partial.     *)
(***************************************************************************)
C5_OnlyAbsentSourceSwallowed ==
  (prog = "debomber" /\ lastOp = "clean") =>
    \A i \in 1..Len(moveLog) :
      /\ moveLog[i].how = "swallowed" =>
           (partial /\ moveLog[i].move = "IOError:source")
      /\ (moveLog[i].move # "ok" /\ ~(partial /\ moveLog[i].move = "IOError:source")) =>
           (moveLog[i].how = "raised" /\ i = Len(moveLog))

(***************************************************************************)
(* C6.  With prompting on, extract() (called directly or by extract_bomb)  *)
(* calls extractall only if no member was found unsafe or the user typed   *)
(* y; after n it is over without having called extractall, and a direct    *)
(* extract() has returned normally and left the file system as it was.     *)
(***************************************************************************)
C6_ExtractOnlyIfSafeOrConfirmed ==
  (prog = "debomb" /\ used /\ xwarn) =>
    /\ extracted => (badfiles = << >> \/ choice = "y")
    /\ choice = "n" =>
         /\ pc = "idle" /\ ~extracted
         /\ lastOp = "extract" => (err = "none" /\ fs = fsAtCall)

\* the user declined an archive with unsafe members
C6_Declined ==
  /\ prog = "debomb" /\ lastOp = "extract" /\ xwarn
  /\ badfiles # << >> /\ choice = "n" /\ pc = "idle"

(***************************************************************************)
(* C7.  With prompting on, extract() shows the prompt exactly when some    *)
(* member, joined to the destination and resolved, lands outside the       *)
(* destination.  The code compares the characters of the destination as    *)
(* given with the resolved target.                                         *)
(***************************************************************************)
C7_PromptIffSomeMemberOutside ==
  (prog = "debomb" /\ lastOp = "extract" /\ xwarn) =>
    ((badfiles # << >>) <=>
       \E i \in 1..Len(names) : ~LandsInside(xpath, names[i]))

(***************************************************************************)
(* C8.  With partial set, has_exploded() is True exactly when at least one *)
(* member exists under root; with partial unset, True only when all exist, *)
(* and some-but-not-all is reported as a list.                             *)
(***************************************************************************)
C8_PartialPositiveIffSomeExist ==
  (prog = "debomber" /\ lastOp = "has_exploded") =>
    /\ partial => ((result = RTrue) <=> ~NoneExist)
    /\ ~partial => /\ (result = RTrue) => AllExist
                   /\ (~AllExist /\ ~NoneExist) => result.kind = "list"

(***************************************************************************)
(* C9.  After extract_bomb got its containment directory, that path is a   *)
(* directory named after the archive under the destination (or root), and  *)
(* extraction goes into it.  The code takes any existing entry of that     *)
(* name, a regular file included.                                          *)
(***************************************************************************)
C9_ContainmentIsDirectory ==
  (prog = "debomb" /\ lastOp = "extract_bomb" /\ err # "OSError") =>
    /\ IsDir(fs, dest)
    /\ xpath = dest

(***************************************************************************)
(* C10.  An opened archive handle is closed exactly once, at teardown, and *)
(* close is never called without an opened handle.                         *)
(***************************************************************************)
C10_ClosedOnceAtTeardown ==
  /\ closeCalls <= 1
  /\ closeCalls > 0 => cfile = "closed"
  /\ life # "deleted" => closeCalls = 0
  /\ (life = "deleted" /\ cfile # "unset") => (cfile = "closed" /\ closeCalls = 1)

\* a Debomber whose last clean raised has been torn down
C10_TornDownAfterError ==
  prog = "debomber" /\ life = "deleted" /\ CleanRaised /\ closeCalls = 1

(***************************************************************************)
(* C11.  For every raw member path the strip loop of rebase_paths          *)
(* terminates, and its round ends in one of two ways: the name yielded,    *)
(* joined to root and resolved, lies under root; or the name is still      *)
(* outside root though stripping no longer changes it, and a fatal error   *)
(* naming it is raised.  The loop does terminate, but it yields ../a and   *)
(* the .. that /.. strips to, which resolve outside root.                  *)
(***************************************************************************)
\* the while loop is left, for the yield or for the raise
C11_StripLoopTerminates == (genPc = "while") ~> (genPc = "after")

\* every round that was begun ends in the yield or in the raise
C11_RoundEnds == (genPc = "while") ~> (genPc \in {"for", "raised"})

\* how a round ended: what was yielded is under root, what was raised for
\* is stuck outside root
C11_EndedContainedOrStuck ==
  /\ \A i \in 1..Len(genYielded) : LandsInside(root, genYielded[i])
  /\ genPc = "raised" =>
       /\ OutsideRoot(root, genName)
       /\ SplitTail(genName) = genName
       /\ err = "Exception"

C11_RebaseEndsContainedOrRaises ==
  /\ C11_StripLoopTerminates
  /\ C11_RoundEnds
  /\ [] C11_EndedContainedOrStuck

\* the statement-by-statement loop yields what RebaseName computes
C11_StepwiseAgrees ==
  (prog = "debomber" /\ genPc \in {"for", "while", "after"}) =>
    \A i \in 1..Len(genYielded) :
      genYielded[i] = RebaseName(root, names[i]).name
====
